---- MODULE Spec2Model ----
(***************************************************************************)
(* Model of patterns/workflows/1-introduction/client_util.py: the example  *)
(* JSON synthesizer (model_to_json, _example_for_type, _example_scalar).   *)
(*                                                                         *)
(* Python strings are sequences of one-character strings.  Python values   *)
(* are records tagged with their Python type (field t).  JSON documents    *)
(* are records tagged with their JSON kind (field j).                      *)
(***************************************************************************)
EXTENDS Integers, Sequences, FiniteSets, TLC

VARIABLES
    pydantic,      \* TRUE iff "from pydantic import BaseModel" succeeded
    today,         \* datetime.date.today() as a proleptic Gregorian ordinal
    nights,        \* midnights passed since the process started
    globalRandom,  \* state of the process-global generator of module random
    twist,         \* the library's fixed seed-to-stream map (one per run)
    last,          \* the most recent call: operation, arguments, outcome
    kept,          \* an earlier leaf call, retained for comparison
    environ,       \* os.environ: variable name -> value or NotSet
    dotenv,        \* the variables the .env file defines
    loadEnvCache,  \* lru_cache of load_env: TRUE once a result is stored
    dotenvLoads,   \* how many times load_dotenv() has run
    clientCache,   \* lru_cache of get_client: the stored client or NoClient
    clientsBuilt,  \* how many times OpenAI(...) has been constructed
    reply          \* the most recent call of load_env, get_client, get_model

synthVars == <<pydantic, today, nights, globalRandom, twist, last, kept>>

configVars ==
    <<environ, dotenv, loadEnvCache, dotenvLoads, clientCache, clientsBuilt,
      reply>>

vars == <<synthVars, configVars>>

-----------------------------------------------------------------------------
(* Bounds *)

MaxNights == 1
MaxTwist == 1
MaxDrawTwist == 1439
MaxGlobal == 2
MaxDepth == 8
MaxMid == 2
MaxCount == 2

-----------------------------------------------------------------------------
(* Characters and strings *)

LowerAlpha ==
    <<"a","b","c","d","e","f","g","h","i","j","k","l","m",
      "n","o","p","q","r","s","t","u","v","w","x","y","z">>

UpperAlpha ==
    <<"A","B","C","D","E","F","G","H","I","J","K","L","M",
      "N","O","P","Q","R","S","T","U","V","W","X","Y","Z">>

DigitChars == <<"0","1","2","3","4","5","6","7","8","9">>

Position(c, alpha) ==
    IF \E i \in 1..Len(alpha) : alpha[i] = c
    THEN CHOOSE i \in 1..Len(alpha) : alpha[i] = c
    ELSE 0

LowerSet == {LowerAlpha[i] : i \in 1..Len(LowerAlpha)}
UpperSet == {UpperAlpha[i] : i \in 1..Len(UpperAlpha)}
DigitSet == {DigitChars[i] : i \in 1..Len(DigitChars)}

ToLowerMap == [c \in UpperSet |-> LowerAlpha[Position(c, UpperAlpha)]]
ToUpperMap == [c \in LowerSet |-> UpperAlpha[Position(c, LowerAlpha)]]

IsLower(c) == c \in LowerSet
IsUpper(c) == c \in UpperSet
IsCased(c) == IsLower(c) \/ IsUpper(c)
IsDigit(c) == c \in DigitSet

CharLower(c) == IF IsUpper(c) THEN ToLowerMap[c] ELSE c
CharUpper(c) == IF IsLower(c) THEN ToUpperMap[c] ELSE c

\* str.lower()
StrLower(s) == [i \in 1..Len(s) |-> CharLower(s[i])]

\* sub in s
Contains(s, sub) ==
    \E i \in 0..(Len(s) - Len(sub)) : SubSeq(s, i + 1, i + Len(sub)) = sub

\* s.endswith(suf)
EndsWith(s, suf) ==
    /\ Len(s) >= Len(suf)
    /\ SubSeq(s, Len(s) - Len(suf) + 1, Len(s)) = suf

\* s.replace(a, b) for single characters a and b
StrReplace(s, a, b) == [i \in 1..Len(s) |-> IF s[i] = a THEN b ELSE s[i]]

\* str.title(): a cased character is upper-cased when the character before
\* it is not cased, lower-cased otherwise
StrTitle(s) ==
    [i \in 1..Len(s) |->
        IF ~IsCased(s[i]) THEN s[i]
        ELSE IF i > 1 /\ IsCased(s[i - 1]) THEN CharLower(s[i])
        ELSE CharUpper(s[i])]

RStripFrom(s, c, n) ==
    LET keep == {i \in 0..n : \A k \in (i + 1)..n : s[k] = c}
        m == CHOOSE i \in keep : \A k \in keep : i <= k
    IN SubSeq(s, 1, m)

\* s.rstrip(c) for a single character c: removes every trailing c
RStrip(s, c) == RStripFrom(s, c, Len(s))

RECURSIVE Decimal(_)
\* str(n) for n >= 0
Decimal(n) ==
    IF n < 10 THEN <<DigitChars[n + 1]>>
    ELSE Decimal(n \div 10) \o <<DigitChars[(n % 10) + 1]>>

RECURSIVE ZeroPad(_, _)
\* the format specification 0<w>d
ZeroPad(s, w) == IF Len(s) >= w THEN s ELSE ZeroPad(<<"0">> \o s, w)

Pad2(n) == ZeroPad(Decimal(n), 2)
Pad4(n) == ZeroPad(Decimal(n), 4)

-----------------------------------------------------------------------------
(* datetime.date: ordinal to calendar date and ISO format *)

DaysBeforeMonth == <<0, 31, 59, 90, 120, 151, 181, 212, 243, 273, 304, 334>>
DaysInMonthTable == <<31, 28, 31, 30, 31, 30, 31, 31, 30, 31, 30, 31>>

IsLeap(y) == y % 4 = 0 /\ (y % 100 # 0 \/ y % 400 = 0)

DaysInMonth(y, m) ==
    IF m = 2 /\ IsLeap(y) THEN 29 ELSE DaysInMonthTable[m]

\* datetime._ord2ymd
Ord2Ymd(ordinal) ==
    LET n0 == ordinal - 1
        n400 == n0 \div 146097
        r400 == n0 % 146097
        n100 == r400 \div 36524
        r100 == r400 % 36524
        n4 == r100 \div 1461
        r4 == r100 % 1461
        n1 == r4 \div 365
        n == r4 % 365
        year == n400 * 400 + 1 + n100 * 100 + n4 * 4 + n1
        leapyear == n1 = 3 /\ (n4 # 24 \/ n100 = 3)
        month0 == (n + 50) \div 32
        pre0 == DaysBeforeMonth[month0]
                    + (IF month0 > 2 /\ leapyear THEN 1 ELSE 0)
        month == IF pre0 > n THEN month0 - 1 ELSE month0
        preceding ==
            IF pre0 > n
            THEN pre0 - (DaysInMonthTable[month]
                            + (IF month = 2 /\ leapyear THEN 1 ELSE 0))
            ELSE pre0
    IN IF n1 = 4 \/ n100 = 4
       THEN [y |-> year - 1, m |-> 12, d |-> 31]
       ELSE [y |-> year, m |-> month, d |-> n - preceding + 1]

\* datetime.date.isoformat
IsoFormat(ordinal) ==
    LET c == Ord2Ymd(ordinal)
    IN Pad4(c.y) \o <<"-">> \o Pad2(c.m) \o <<"-">> \o Pad2(c.d)

-----------------------------------------------------------------------------
(* random.Random(seed).randint(a, b) *)

CodeAlphabet == LowerAlpha \o UpperAlpha \o DigitChars \o <<"_", ":", " ", "-">>

CharCode == [c \in {CodeAlphabet[i] : i \in 1..Len(CodeAlphabet)} |->
                Position(c, CodeAlphabet)]

RECURSIVE StrHash(_, _)
\* The generator is seeded from the characters of the seed string alone.
StrHash(s, h) ==
    IF s = <<>> THEN h
    ELSE StrHash(Tail(s), (h * 31 + CharCode[Head(s)]) % 65536)

\* Variant: the draw is taken from the module-level generator.
SharedRandint(seed_basis, a, b) ==
    a + ((StrHash(seed_basis, 7) + twist + globalRandom) % (b - a + 1))

\* First draw of a generator freshly seeded with seed_basis: a value in a..b
\* fixed by the seed string and by the library's algorithm (twist).
SeededRandint(seed_basis, a, b) ==
    a + ((StrHash(seed_basis, 7) + twist) % (b - a + 1))

-----------------------------------------------------------------------------
(* Python values and type expressions *)

PyStr(s) == [t |-> "str", v |-> s]
PyInt(n) == [t |-> "int", v |-> n]
\* a float with integral value n (0.0 is PyFloat(0))
PyFloat(n) == [t |-> "float", v |-> n]
PyBool(b) == [t |-> "bool", v |-> b]
PyList(elems) == [t |-> "list", v |-> elems]
PyTuple(elems) == [t |-> "tuple", v |-> elems]
\* a set, elements listed without duplicates
PySet(elems) == [t |-> "set", v |-> elems]
\* a dict, entries <<key, value>> in insertion order
PyDict(entries) == [t |-> "dict", v |-> entries]
PyNone == [t |-> "NoneType", v |-> 0]

Ok(value) == [err |-> "none", val |-> value]
Raise(e) == [err |-> e, val |-> PyNone]

TStr == [k |-> "str", a |-> <<>>, m |-> <<>>]
TInt == [k |-> "int", a |-> <<>>, m |-> <<>>]
TFloat == [k |-> "float", a |-> <<>>, m |-> <<>>]
TBool == [k |-> "bool", a |-> <<>>, m |-> <<>>]
TAny == [k |-> "any", a |-> <<>>, m |-> <<>>]
\* a type expression the synthesizer does not recognize (bytes, Optional[str])
TOther == [k |-> "other", a |-> <<>>, m |-> <<>>]
\* a type expression that is not a class (Optional[str])
TUnion == [k |-> "union", a |-> <<>>, m |-> <<>>]
\* typing.List / typing.Tuple / typing.Set / typing.Dict without parameters
TBare(origin) == [k |-> origin, a |-> <<>>, m |-> <<>>]
TList(inner) == [k |-> "list", a |-> <<inner>>, m |-> <<>>]
TTuple(inner) == [k |-> "tuple", a |-> <<inner>>, m |-> <<>>]
TSet(inner) == [k |-> "set", a |-> <<inner>>, m |-> <<>>]
TDict(k_t, v_t) == [k |-> "dict", a |-> <<k_t, v_t>>, m |-> <<>>]
\* a class, named by its __name__
TModel(name) == [k |-> "model", a |-> <<>>, m |-> name]

-----------------------------------------------------------------------------
(* _example_scalar *)

S_date == <<"d","a","t","e">>
S_time == <<"t","i","m","e">>
S_name == <<"n","a","m","e">>
S_id == <<"i","d">>
S__id == <<"_","i","d">>
S__value == <<"_","v","a","l","u","e">>

\* Variant: the offset starts at 0.
DateStringFromZero(day, days_ahead) == IsoFormat(day + days_ahead - 1)

\* (datetime.date.today() + datetime.timedelta(days=days_ahead)).isoformat()
DateString(day, days_ahead) == IsoFormat(day + days_ahead)

\* Variant: no zero padding.
TimeStringUnpadded(minutes) ==
    Decimal(minutes \div 60) \o <<":">> \o Decimal(minutes % 60)

\* f"{minutes // 60:02d}:{minutes % 60:02d}"
TimeString(minutes) == Pad2(minutes \div 60) \o <<":">> \o Pad2(minutes % 60)

\* f"{model_name} {field_name.replace('_', ' ').title()}"
TitleString(field_name, model_name) ==
    model_name \o <<" ">> \o StrTitle(StrReplace(field_name, "_", " "))

\* f"{model_name.lower()}_{field_name.lower()}_{rng.randint(1000,9999)}"
IdString(field_name, model_name, number) ==
    StrLower(model_name) \o <<"_">> \o StrLower(field_name) \o <<"_">>
        \o Decimal(number)

\* Variant: the "time" rule is tried before the "date" rule.
ExampleScalarTimeFirst(py_type, field_name, model_name, day) ==
    LET lname == StrLower(field_name)
        seed_basis == model_name \o <<":">> \o field_name
    IN IF Contains(lname, S_time)
       THEN PyStr(TimeString(SeededRandint(seed_basis, 0, 23 * 60 + 59)))
       ELSE IF Contains(lname, S_date)
       THEN PyStr(DateString(day, SeededRandint(seed_basis, 1, 180)))
       ELSE IF Contains(lname, S_name)
       THEN PyStr(TitleString(field_name, model_name))
       ELSE IF EndsWith(lname, S_id) \/ lname = S_id \/ EndsWith(lname, S__id)
       THEN PyStr(IdString(field_name, model_name,
                           SeededRandint(seed_basis, 1000, 9999)))
       ELSE IF py_type.k \in {"str", "any"}
       THEN PyStr(TitleString(field_name, model_name))
       ELSE IF py_type.k = "int" THEN PyInt(0)
       ELSE IF py_type.k = "float" THEN PyFloat(0)
       ELSE IF py_type.k = "bool" THEN PyBool(TRUE)
       ELSE PyStr(field_name \o S__value)

\* day is the value datetime.date.today() returns during the call
ExampleScalar(py_type, field_name, model_name, day) ==
    LET lname == StrLower(field_name)
        seed_basis == model_name \o <<":">> \o field_name
    IN IF Contains(lname, S_date)
       THEN PyStr(DateString(day, SeededRandint(seed_basis, 1, 180)))
       ELSE IF Contains(lname, S_time)
       THEN PyStr(TimeString(SeededRandint(seed_basis, 0, 23 * 60 + 59)))
       ELSE IF Contains(lname, S_name)
       THEN PyStr(TitleString(field_name, model_name))
       ELSE IF EndsWith(lname, S_id) \/ lname = S_id \/ EndsWith(lname, S__id)
       THEN PyStr(IdString(field_name, model_name,
                           SeededRandint(seed_basis, 1000, 9999)))
       ELSE IF py_type.k \in {"str", "any"}
       THEN PyStr(TitleString(field_name, model_name))
       ELSE IF py_type.k = "int" THEN PyInt(0)
       ELSE IF py_type.k = "float" THEN PyFloat(0)
       ELSE IF py_type.k = "bool" THEN PyBool(TRUE)
       ELSE PyStr(field_name \o S__value)

-----------------------------------------------------------------------------
(* json.dumps and json.loads, on the document tree *)

JString(s) == [j |-> "string", v |-> s]
JInt(n) == [j |-> "int", v |-> n]
\* a number written with a fraction part (0.0 is JFloat(0))
JFloat(n) == [j |-> "float", v |-> n]
JBool(b) == [j |-> "bool", v |-> b]
JArray(elems) == [j |-> "array", v |-> elems]
\* members <<name, value>> in document order
JObject(members) == [j |-> "object", v |-> members]

\* json.dumps accepts only these as dict keys
IsJsonKey(key) == key.t \in {"str", "int", "float", "bool", "NoneType"}

\* the member name json.dumps writes for a dict key
KeyText(key) ==
    IF key.t = "str" THEN key.v
    ELSE IF key.t = "int" THEN Decimal(key.v)
    ELSE IF key.t = "float" THEN Decimal(key.v) \o <<".", "0">>
    ELSE IF key.t = "bool"
         THEN (IF key.v THEN <<"t","r","u","e">> ELSE <<"f","a","l","s","e">>)
    ELSE <<"n","u","l","l">>

RECURSIVE Serializable(_)
\* json.dumps(value) does not raise TypeError
Serializable(value) ==
    IF value.t \in {"str", "int", "float", "bool", "NoneType"} THEN TRUE
    ELSE IF value.t \in {"list", "tuple"}
    THEN \A i \in 1..Len(value.v) : Serializable(value.v[i])
    ELSE IF value.t = "dict"
    THEN \A i \in 1..Len(value.v) :
            IsJsonKey(value.v[i][1]) /\ Serializable(value.v[i][2])
    ELSE FALSE

RECURSIVE Dumps(_)
\* json.dumps(value, indent=2) of a serializable value
Dumps(value) ==
    IF value.t = "str" THEN JString(value.v)
    ELSE IF value.t = "int" THEN JInt(value.v)
    ELSE IF value.t = "float" THEN JFloat(value.v)
    ELSE IF value.t = "bool" THEN JBool(value.v)
    ELSE IF value.t \in {"list", "tuple"}
    THEN JArray([i \in 1..Len(value.v) |-> Dumps(value.v[i])])
    ELSE JObject([i \in 1..Len(value.v) |->
                    <<KeyText(value.v[i][1]), Dumps(value.v[i][2])>>])

RECURSIVE Loads(_)
\* json.loads(document)
Loads(doc) ==
    IF doc.j = "string" THEN PyStr(doc.v)
    ELSE IF doc.j = "int" THEN PyInt(doc.v)
    ELSE IF doc.j = "float" THEN PyFloat(doc.v)
    ELSE IF doc.j = "bool" THEN PyBool(doc.v)
    ELSE IF doc.j = "array"
    THEN PyList([i \in 1..Len(doc.v) |-> Loads(doc.v[i])])
    ELSE PyDict([i \in 1..Len(doc.v) |->
                    <<PyStr(doc.v[i][1]), Loads(doc.v[i][2])>>])

RECURSIVE Hashable(_)
\* hash(value) does not raise TypeError
Hashable(value) ==
    IF value.t \in {"list", "set", "dict"} THEN FALSE
    ELSE IF value.t = "tuple"
    THEN \A i \in 1..Len(value.v) : Hashable(value.v[i])
    ELSE TRUE

-----------------------------------------------------------------------------
(* Field names and class names the operations are called with *)

F_date == <<"d","a","t","e">>
F_start_time == <<"s","t","a","r","t","_","t","i","m","e">>
F_datetime == <<"d","a","t","e","t","i","m","e">>
F_update_name == <<"u","p","d","a","t","e","_","n","a","m","e">>
F_time_name == <<"t","i","m","e","_","n","a","m","e">>
F_name_id == <<"n","a","m","e","_","i","d">>
F_id == <<"i","d">>
F_userID == <<"u","s","e","r","I","D">>
F_valid == <<"v","a","l","i","d">>
F_DueDate == <<"D","u","e","D","a","t","e">>
F_count == <<"c","o","u","n","t">>
F_first_title == <<"f","i","r","s","t","_","t","i","t","l","e">>
F_tags == <<"t","a","g","s">>
F_class == <<"c","l","a","s","s">>
F_s == <<"s">>
F_ss == <<"s","s">>
F_dates == <<"d","a","t","e","s">>
F_times == <<"t","i","m","e","s">>
F_key == <<"k","e","y">>
F_scores == <<"s","c","o","r","e","s">>
F_items == <<"i","t","e","m","s">>
F_meta == <<"m","e","t","a">>

F_name == <<"n","a","m","e">>
F_participants == <<"p","a","r","t","i","c","i","p","a","n","t","s">>
F_answer == <<"a","n","s","w","e","r">>
F_source == <<"s","o","u","r","c","e">>
F_children == <<"c","h","i","l","d","r","e","n">>
F_note == <<"n","o","t","e">>
F_by_key == <<"b","y","_","k","e","y">>
F_pairs == <<"p","a","i","r","s">>
F_owners == <<"o","w","n","e","r","s">>

M_Event == <<"E","v","e","n","t">>
M_Widget == <<"W","i","d","g","e","t">>
M_Item == <<"I","t","e","m">>
M_Node == <<"N","o","d","e">>
M_Tagged == <<"T","a","g","g","e","d">>
M_Matrix == <<"M","a","t","r","i","x">>
M_Index == <<"I","n","d","e","x">>
M_Empty == <<"E","m","p","t","y">>
M_CalendarEvent == <<"C","a","l","e","n","d","a","r","E","v","e","n","t">>
M_KBResponse == <<"K","B","R","e","s","p","o","n","s","e">>
M_Order == <<"O","r","d","e","r">>
M_Loose == <<"L","o","o","s","e">>
M_Pairs == <<"P","a","i","r","s">>
M_Owners == <<"O","w","n","e","r","s">>

LeafNames ==
    {F_date, F_start_time, F_datetime, F_update_name, F_time_name, F_name_id,
     F_id, F_userID, F_valid, F_DueDate, F_count, F_first_title}

LeafTypes == {TStr, TInt, TFloat, TBool, TAny, TOther}

LeafModels == {M_Event, M_Widget}

\* 2026-11-02, 2027-09-02 (180 days before 2028-02-29), 2027-12-30
StartDays == {739922, 740226, 740345}

-----------------------------------------------------------------------------
(* The classes handed to model_to_json: model_fields of each *)

Field(name, annotation) == [name |-> name, annotation |-> annotation]

ModelFields(cls) ==
    IF cls = M_CalendarEvent
    THEN <<Field(F_name, TStr), Field(F_date, TStr),
           Field(F_participants, TList(TStr))>>
    ELSE IF cls = M_KBResponse
    THEN <<Field(F_answer, TStr), Field(F_source, TInt)>>
    ELSE IF cls = M_Item
    THEN <<Field(F_name, TStr), Field(F_count, TInt)>>
    ELSE IF cls = M_Order
    THEN <<Field(F_id, TInt), Field(F_items, TList(TModel(M_Item))),
           Field(F_meta, TDict(TStr, TInt)), Field(F_dates, TTuple(TStr))>>
    ELSE IF cls = M_Node
    THEN <<Field(F_name, TStr), Field(F_children, TList(TModel(M_Node)))>>
    ELSE IF cls = M_Tagged
    THEN <<Field(F_name, TStr), Field(F_tags, TSet(TStr))>>
    ELSE IF cls = M_Index
    THEN <<Field(F_by_key, TDict(TList(TStr), TStr))>>
    ELSE IF cls = M_Pairs
    THEN <<Field(F_pairs, TDict(TTuple(TStr), TInt))>>
    ELSE IF cls = M_Owners
    THEN <<Field(F_owners, TDict(TModel(M_Item), TStr))>>
    ELSE IF cls = M_Matrix
    THEN <<Field(F_scores, TList(TList(TInt))), Field(F_meta, TBare("dict")),
           Field(F_key, TDict(TInt, TAny))>>
    ELSE IF cls = M_Loose
    THEN <<Field(F_note, TUnion)>>
    ELSE <<>>

-----------------------------------------------------------------------------
(* _example_for_type and model_to_json *)

\* BaseModel after the import at the top of the module
BaseModel == IF pydantic THEN "pydantic.BaseModel" ELSE "object"

\* isinstance(x, type), for the two values BaseModel can have
IsType(x) == x \in {"pydantic.BaseModel", "object"}

\* isinstance(tp, type); typing.Any is a class since Python 3.11
IsClass(tp) == tp.k \in {"str", "int", "float", "bool", "any", "other", "model"}

\* isinstance(tp, type) and isinstance(BaseModel, type)
\*     and issubclass(tp, BaseModel)
IsSubclassOfBaseModel(tp) ==
    /\ IsClass(tp)
    /\ IsType(BaseModel)
    /\ (BaseModel = "pydantic.BaseModel" => tp.k = "model")

\* model_cls.model_fields exists: a pydantic model or, without pydantic, a
\* class that carries an attribute of that name (c.duck)
HasModelFields(model_cls, c) ==
    model_cls.k = "model" /\ (pydantic \/ c.duck)

\* s with one trailing c removed, if it ends in c
RStripOnce(s, c) ==
    IF Len(s) > 0 /\ s[Len(s)] = c THEN SubSeq(s, 1, Len(s) - 1) ELSE s

\* field_name.rstrip("s") or field_name
Singular(field_name) ==
    IF RStrip(field_name, "s") = <<>> THEN field_name
    ELSE RStrip(field_name, "s")

\* Variant: the suffix is appended to any two equal elements.
DisambiguateAnyType(first, second) ==
    IF first.t = second.t /\ first.v = second.v /\ first.t \in {"str", "int"}
    THEN <<first,
           IF first.t = "str" THEN PyStr(first.v \o <<" ", "2">>)
           ELSE PyInt(first.v + 2)>>
    ELSE <<first, second>>

\* if isinstance(first, str) and isinstance(second, str) and first == second:
\*     second = first + " 2"
\* seq = [first, second]
Disambiguate(first, second) ==
    IF first.t = "str" /\ second.t = "str" /\ first.v = second.v
    THEN <<first, PyStr(first.v \o <<" ", "2">>)>>
    ELSE <<first, second>>

\* set(seq) of hashable elements; equal elements are kept once
MakeSet(seq) ==
    IF seq[1].t = seq[2].t /\ seq[1].v = seq[2].v
    THEN PySet(<<seq[1]>>)
    ELSE PySet(seq)

\* the value of datetime.date.today() at the n-th reading of the clock within
\* a call that started on c.day; midnight passes after c.mid readings
\* (c.mid = 0: not during the call)
ClockRead(c, n) == c.day + (IF c.mid > 0 /\ n >= c.mid THEN 1 ELSE 0)

\* only the "date" rule reads the clock
ReadsClock(field_name) == Contains(StrLower(field_name), S_date)

Res(err, val, n) == [err |-> err, val |-> val, n |-> n]

RECURSIVE ExampleForType(_, _, _, _, _, _)
RECURSIVE ModelToJson(_, _, _, _)
RECURSIVE FieldLoop(_, _, _, _, _, _, _)

\* n counts the readings of the clock made so far; depth counts the frames
\* of the recursion, RecursionError beyond MaxDepth
ExampleForType(tp, field_name, model_name, c, n, depth) ==
    IF depth > MaxDepth THEN Res("RecursionError", PyNone, n)
    ELSE IF tp.k \in {"list", "tuple", "set"}
    THEN LET inner == IF tp.a # <<>> THEN tp.a[1] ELSE TStr
             singular == Singular(field_name)
             r1 == ExampleForType(inner, singular, model_name, c, n, depth + 1)
         IN IF r1.err # "none" THEN r1
            ELSE LET r2 == ExampleForType(inner, singular, model_name, c,
                                          r1.n, depth + 1)
                 IN IF r2.err # "none" THEN r2
                    ELSE LET seq == Disambiguate(r1.val, r2.val)
                         IN IF tp.k = "tuple"
                            THEN Res("none", PyTuple(seq), r2.n)
                            ELSE IF tp.k = "set"
                            THEN (IF Hashable(seq[1]) /\ Hashable(seq[2])
                                  THEN Res("none", MakeSet(seq), r2.n)
                                  ELSE Res("TypeError", PyNone, r2.n))
                            ELSE Res("none", PyList(seq), r2.n)
    ELSE IF tp.k = "dict"
    THEN LET k_t == IF tp.a # <<>> THEN tp.a[1] ELSE TStr
             v_t == IF tp.a # <<>> THEN tp.a[2] ELSE TStr
             rk == ExampleForType(k_t, F_key, model_name, c, n, depth + 1)
         IN IF rk.err # "none" THEN rk
            ELSE LET rv == ExampleForType(v_t, field_name \o S__value,
                                          model_name, c, rk.n, depth + 1)
                 IN IF rv.err # "none" THEN rv
                    ELSE IF ~Hashable(rk.val)
                    THEN Res("TypeError", PyNone, rv.n)
                    ELSE Res("none", PyDict(<<<<rk.val, rv.val>>>>), rv.n)
    ELSE IF IsSubclassOfBaseModel(tp)
    THEN LET r == ModelToJson(tp, c, n, depth + 1)
         IN IF r.err # "none" THEN r
            ELSE Res("none", Loads(r.val), r.n)
    ELSE Res("none",
             ExampleScalar(tp, field_name, model_name, ClockRead(c, n)),
             IF ReadsClock(field_name) THEN n + 1 ELSE n)

\* Variant: a new entry is put in front of the entries made so far.
FieldLoopPrepend(fields, i, data, cls_name, c, n, depth) ==
    IF i > Len(fields) THEN Res("none", data, n)
    ELSE LET r == ExampleForType(fields[i].annotation, fields[i].name,
                                 cls_name, c, n, depth + 1)
         IN IF r.err # "none" THEN r
            ELSE FieldLoop(fields, i + 1,
                           <<<<PyStr(fields[i].name), r.val>>>> \o data,
                           cls_name, c, r.n, depth)

\* for name, field in model_cls.model_fields.items():
\*     data[name] = _example_for_type(field.annotation, name, model_cls.__name__)
FieldLoop(fields, i, data, cls_name, c, n, depth) ==
    IF i > Len(fields) THEN Res("none", data, n)
    ELSE LET r == ExampleForType(fields[i].annotation, fields[i].name,
                                 cls_name, c, n, depth + 1)
         IN IF r.err # "none" THEN r
            ELSE FieldLoop(fields, i + 1,
                           Append(data, <<PyStr(fields[i].name), r.val>>),
                           cls_name, c, r.n, depth)

\* the result value is the JSON document, as a tree
ModelToJson(model_cls, c, n, depth) ==
    IF depth > MaxDepth THEN Res("RecursionError", PyNone, n)
    ELSE IF ~IsType(BaseModel) THEN Res("RuntimeError", PyNone, n)
    ELSE IF ~HasModelFields(model_cls, c) THEN Res("AttributeError", PyNone, n)
    ELSE LET r == FieldLoop(ModelFields(model_cls.m), 1, <<>>, model_cls.m,
                            c, n, depth)
         IN IF r.err # "none" THEN r
            ELSE IF ~Serializable(PyDict(r.val))
            THEN Res("TypeError", PyNone, r.n)
            ELSE Res("none", Dumps(PyDict(r.val)), r.n)

-----------------------------------------------------------------------------
(* State machine: calls of the leaf heuristic *)

NoCall ==
    [op |-> "none", tp |-> TOther, field_name |-> <<>>, model_name |-> <<>>,
     day |-> 0, mid |-> 0, duck |-> FALSE, out |-> Raise("no call")]

ScalarCall(py_type, field_name, model_name) ==
    [op |-> "_example_scalar", tp |-> py_type, field_name |-> field_name,
     model_name |-> model_name, day |-> today, mid |-> 0, duck |-> FALSE,
     out |-> Ok(ExampleScalar(py_type, field_name, model_name, today))]

\* _example_scalar(py_type, field_name, model_name)
CallExampleScalar ==
    \E py_type \in LeafTypes, field_name \in LeafNames, model_name \in LeafModels :
        /\ last' = ScalarCall(py_type, field_name, model_name)
        /\ UNCHANGED <<pydantic, today, nights, globalRandom, twist, kept>>
        /\ UNCHANGED configVars

\* the system date changes
Midnight ==
    /\ nights < MaxNights
    /\ nights' = nights + 1
    /\ today' = today + 1
    /\ UNCHANGED <<pydantic, globalRandom, twist, last, kept>>
    /\ UNCHANGED configVars

\* other code of the process draws from the module-level generator
GlobalRandomCall ==
    /\ globalRandom' = (globalRandom + 1) % (MaxGlobal + 1)
    /\ UNCHANGED <<pydantic, today, nights, twist, last, kept>>
    /\ UNCHANGED configVars

NotSet == "(not set)"

EnvNames == {"OPENAI_API_KEY", "OPENAI_BASE_URL", "OPENAI_MODEL"}

NoClient == [id |-> 0, api_key |-> NotSet, base_url |-> NotSet]

NoReply ==
    [op |-> "none", hit |-> FALSE, environ |-> [n \in EnvNames |-> NotSet],
     default |-> NotSet, text |-> NotSet, client |-> NoClient]

\* nothing loaded, nothing cached
InitConfigCaches ==
    /\ loadEnvCache = FALSE
    /\ dotenvLoads = 0
    /\ clientCache = NoClient
    /\ clientsBuilt = 0
    /\ reply = NoReply

InitCommon ==
    /\ environ = [n \in EnvNames |-> NotSet]
    /\ dotenv = [n \in EnvNames |-> NotSet]
    /\ InitConfigCaches
    /\ nights = 0
    /\ globalRandom = 0
    /\ last = NoCall
    /\ kept = NoCall

InitLeaf == InitCommon /\ today \in StartDays /\ pydantic = TRUE /\ twist \in 0..MaxTwist

NextLeaf == CallExampleScalar \/ Midnight

SpecLeaf == InitLeaf /\ [][NextLeaf]_vars

-----------------------------------------------------------------------------
(* State machine: the draws of the leaf heuristic over the whole range *)

DrawNames == {F_date, F_DueDate, F_start_time, F_time_name}

\* _example_scalar on a field named after a date or a time
CallDateOrTime ==
    \E field_name \in DrawNames :
        /\ last' = ScalarCall(TInt, field_name, M_Event)
        /\ UNCHANGED <<pydantic, today, nights, globalRandom, twist, kept>>
        /\ UNCHANGED configVars

InitDraw == InitCommon /\ today \in StartDays /\ pydantic = TRUE /\ twist \in 0..MaxDrawTwist

NextDraw == CallDateOrTime \/ Midnight

SpecDraw == InitDraw /\ [][NextDraw]_vars

-----------------------------------------------------------------------------
(* State machine: repeated calls of the leaf heuristic *)

PureNames == {F_date, F_start_time, F_userID, F_count}

PureTypes == {TStr, TInt}

\* _example_scalar; the call before it is retained or not
CallAgain ==
    \E py_type \in PureTypes, field_name \in PureNames, keep \in BOOLEAN :
        /\ last' = ScalarCall(py_type, field_name, M_Event)
        /\ kept' = IF keep THEN last ELSE kept
        /\ UNCHANGED <<pydantic, today, nights, globalRandom, twist>>
        /\ UNCHANGED configVars

InitPure == InitCommon /\ today \in StartDays /\ pydantic = TRUE /\ twist \in 0..MaxTwist

NextPure == CallAgain \/ Midnight \/ GlobalRandomCall

SpecPure == InitPure /\ [][NextPure]_vars

-----------------------------------------------------------------------------
(* Reading results back *)

RECURSIVE ParseNat(_, _)
ParseNat(s, acc) ==
    IF s = <<>> THEN acc
    ELSE ParseNat(Tail(s), acc * 10 + (Position(Head(s), DigitChars) - 1))

AllDigits(s) == \A i \in 1..Len(s) : IsDigit(s[i])

\* datetime._ymd2ord
Ymd2Ord(y, m, d) ==
    LET p == y - 1
    IN p * 365 + (p \div 4) - (p \div 100) + (p \div 400)
        + DaysBeforeMonth[m] + (IF m > 2 /\ IsLeap(y) THEN 1 ELSE 0) + d

\* s is YYYY-MM-DD and names a day of the calendar
IsIsoDate(s) ==
    /\ Len(s) = 10
    /\ s[5] = "-" /\ s[8] = "-"
    /\ AllDigits(SubSeq(s, 1, 4)) /\ AllDigits(SubSeq(s, 6, 7))
    /\ AllDigits(SubSeq(s, 9, 10))
    /\ LET y == ParseNat(SubSeq(s, 1, 4), 0)
           m == ParseNat(SubSeq(s, 6, 7), 0)
           d == ParseNat(SubSeq(s, 9, 10), 0)
       IN y >= 1 /\ m \in 1..12 /\ d >= 1 /\ d <= DaysInMonth(y, m)

IsoOrdinal(s) ==
    Ymd2Ord(ParseNat(SubSeq(s, 1, 4), 0), ParseNat(SubSeq(s, 6, 7), 0),
            ParseNat(SubSeq(s, 9, 10), 0))

\* s is HH:MM, 00 <= HH <= 23, 00 <= MM <= 59
IsHHMM(s) ==
    /\ Len(s) = 5
    /\ s[3] = ":"
    /\ AllDigits(SubSeq(s, 1, 2)) /\ AllDigits(SubSeq(s, 4, 5))
    /\ ParseNat(SubSeq(s, 1, 2), 0) <= 23
    /\ ParseNat(SubSeq(s, 4, 5), 0) <= 59

\* s is "<model_name> <field_name, underscores as spaces, title-cased>"
IsTitled(s, field_name, model_name) ==
    /\ Len(s) = Len(model_name) + 1 + Len(field_name)
    /\ SubSeq(s, 1, Len(model_name)) = model_name
    /\ s[Len(model_name) + 1] = " "
    /\ \A i \in 1..Len(field_name) :
        LET c == s[Len(model_name) + 1 + i]
            f == field_name[i]
            starts == i = 1 \/ ~IsCased(field_name[i - 1])
        IN IF f = "_" THEN c = " "
           ELSE /\ CharLower(c) = CharLower(f)
                /\ IsCased(f) => (IsUpper(c) <=> starts)

\* s is "<model_name lowered>_<field_name lowered>_<1000..9999>"
IsIdSlug(s, field_name, model_name) ==
    LET lm == Len(model_name)
        lf == Len(field_name)
    IN /\ Len(s) = lm + lf + 6
       /\ SubSeq(s, 1, lm) = StrLower(model_name)
       /\ s[lm + 1] = "_"
       /\ SubSeq(s, lm + 2, lm + 1 + lf) = StrLower(field_name)
       /\ s[lm + lf + 2] = "_"
       /\ AllDigits(SubSeq(s, lm + lf + 3, lm + lf + 6))
       /\ ParseNat(SubSeq(s, lm + lf + 3, lm + lf + 6), 0) \in 1000..9999

HasDate(field_name) == Contains(StrLower(field_name), S_date)
HasTime(field_name) == Contains(StrLower(field_name), S_time)
HasName(field_name) == Contains(StrLower(field_name), S_name)
HasIdSuffix(field_name) == EndsWith(StrLower(field_name), S_id)

IsLeafCall(c) == c.op = "_example_scalar"

-----------------------------------------------------------------------------
(* Claims about the leaf heuristic *)

SameInputs(c, d) ==
    /\ IsLeafCall(c) /\ IsLeafCall(d)
    /\ c.tp = d.tp
    /\ c.field_name = d.field_name
    /\ c.model_name = d.model_name

\* C4 as stated: two calls of the leaf heuristic with the same declared type,
\* field name and schema name return the same value, at any two points of
\* an execution.
C4_AnyTwoCalls == SameInputs(kept, last) => kept.out = last.out

\* C4: two calls of the leaf heuristic with the same declared type, field
\* name and schema name return the same value when the current date is the
\* same at both calls or the field name does not contain "date", whatever
\* calls and draws from the process-global generator happen in between; and
\* a call leaves the process-global generator as it was.
C4_PureGivenDate ==
    /\ [](SameInputs(kept, last)
            /\ (kept.day = last.day \/ ~HasDate(last.field_name))
          => kept.out = last.out)
    /\ [][last' # last => globalRandom' = globalRandom]_vars

\* the same call was made twice with a draw from the process-global
\* generator in between
C4_Witness ==
    /\ SameInputs(kept, last)
    /\ kept.day = last.day
    /\ HasDate(last.field_name)
    /\ globalRandom # 0
    /\ kept.out = last.out

\* C8: for a field name containing "date" the leaf heuristic returns an
\* ISO-8601 calendar date later than the current date by the offset drawn
\* from the generator seeded with "<schemaName>:<fieldName>", 1 to 180 days.
C8_DateBounds ==
    (IsLeafCall(last) /\ HasDate(last.field_name)) =>
        LET r == last.out.val
        IN /\ r.t = "str"
           /\ IsIsoDate(r.v)
           /\ last.day < IsoOrdinal(r.v)
           /\ IsoOrdinal(r.v) <= last.day + 180
           /\ IsoOrdinal(r.v) - last.day =
                SeededRandint(last.model_name \o <<":">> \o last.field_name,
                              1, 180)

\* a date field got the date 180 days ahead, in a leap February
C8_Witness ==
    /\ IsLeafCall(last)
    /\ HasDate(last.field_name)
    /\ IsoOrdinal(last.out.val.v) = last.day + 180
    /\ SubSeq(last.out.val.v, 5, 10) = <<"-","0","2","-","2","9">>

\* C9: for a field name containing "time" and not "date" the leaf heuristic
\* returns HH:MM, two digits each, 00 <= HH <= 23 and 00 <= MM <= 59, for
\* every minute of the day the draw can produce.
C9_TimeFormat ==
    (IsLeafCall(last) /\ HasTime(last.field_name)
        /\ ~HasDate(last.field_name)) =>
        /\ last.out.val.t = "str"
        /\ IsHHMM(last.out.val.v)

\* a time field got the last minute of the day
C9_Witness ==
    /\ IsLeafCall(last)
    /\ HasTime(last.field_name)
    /\ ~HasDate(last.field_name)
    /\ last.out.val.v = <<"2","3",":","5","9">>

-----------------------------------------------------------------------------
(* State machine: calls of _example_for_type and of model_to_json *)

Ctx(mid, duck) == [day |-> today, mid |-> mid, duck |-> duck]

\* a call during which midnight passes after mid readings of the clock
\* (mid = 0: midnight does not pass during the call)
MayReturn(mid, duck, r) ==
    /\ duck => ~pydantic
    /\ mid > 0 => (nights < MaxNights /\ mid < r.n)

CallRecord(op, tp, field_name, model_name, mid, duck, r) ==
    [op |-> op, tp |-> tp, field_name |-> field_name,
     model_name |-> model_name, day |-> today, mid |-> mid,
     duck |-> duck, out |-> [err |-> r.err, val |-> r.val]]

FieldTypes ==
    {TStr, TList(TStr), TList(TInt), TTuple(TStr), TTuple(TBool),
     TSet(TStr), TSet(TInt), TSet(TList(TStr)), TBare("list"),
     TList(TModel(M_Item)), TDict(TStr, TInt), TDict(TInt, TList(TFloat)),
     TDict(TList(TStr), TStr), TModel(M_Item), TModel(M_Node)}

FieldNames == {F_tags, F_class, F_ss, F_s, F_dates, F_times}

\* _example_for_type(tp, field_name, model_name)
CallExampleForType ==
    \E tp \in FieldTypes, field_name \in FieldNames, mid \in 0..MaxMid,
       duck \in BOOLEAN :
        LET r == ExampleForType(tp, field_name, M_Event, Ctx(mid, duck), 0, 1)
        IN /\ MayReturn(mid, duck, r)
           /\ last' = CallRecord("_example_for_type", tp, field_name, M_Event,
                                 mid, duck, r)
           /\ today' = IF mid > 0 THEN today + 1 ELSE today
           /\ nights' = IF mid > 0 THEN nights + 1 ELSE nights
           /\ UNCHANGED <<pydantic, globalRandom, twist, kept>>
           /\ UNCHANGED configVars

FieldDays == {d \in StartDays : \A e \in StartDays : d <= e}

InitField ==
    InitCommon /\ today \in FieldDays /\ pydantic \in BOOLEAN
        /\ twist \in 0..MaxTwist

NextField == CallExampleForType \/ Midnight

SpecField == InitField /\ [][NextField]_vars

Classes ==
    {M_CalendarEvent, M_KBResponse, M_Item, M_Order, M_Node, M_Tagged,
     M_Index, M_Pairs, M_Owners, M_Matrix, M_Loose, M_Empty}

\* model_to_json(model_cls)
CallModelToJson ==
    \E cls \in Classes, mid \in 0..MaxMid, duck \in BOOLEAN :
        LET r == ModelToJson(TModel(cls), Ctx(mid, duck), 0, 1)
        IN /\ MayReturn(mid, duck, r)
           /\ last' = CallRecord("model_to_json", TModel(cls), <<>>, cls,
                                 mid, duck, r)
           /\ today' = IF mid > 0 THEN today + 1 ELSE today
           /\ nights' = IF mid > 0 THEN nights + 1 ELSE nights
           /\ UNCHANGED <<pydantic, globalRandom, twist, kept>>
           /\ UNCHANGED configVars

InitModel == InitCommon /\ today \in StartDays /\ pydantic \in BOOLEAN /\ twist \in 0..MaxTwist

NextModel == CallModelToJson \/ Midnight

SpecModel == InitModel /\ [][NextModel]_vars

-----------------------------------------------------------------------------
(* Claims about model_to_json and _example_for_type *)

IsModelCall(c) == c.op = "model_to_json"
IsFieldCall(c) == c.op = "_example_for_type"
IsSequenceType(tp) == tp.k \in {"list", "tuple", "set"}

\* C1: when pydantic is not installed, every call of model_to_json fails
\* with the dedicated RuntimeError.
C1_SchemaUnavailable ==
    (IsModelCall(last) /\ ~pydantic) => last.out.err = "RuntimeError"

\* C2: with pydantic installed, model_to_json returns a JSON string for every
\* schema built from scalars, Any, sequences, mappings with any key type,
\* nested schemas and unrecognized types; it never raises.  (The schema that
\* refers to itself is left out here.)
C2_NoErrorPath ==
    (IsModelCall(last) /\ pydantic /\ last.model_name # M_Node) =>
        last.out.err = "none"

\* the naming basis with exactly one trailing "s" removed
OneSRemoved(field_name) ==
    IF RStripOnce(field_name, "s") = <<>> THEN field_name
    ELSE RStripOnce(field_name, "s")

\* C5: both elements of a sequence field are synthesized under the field
\* name with exactly one trailing "s" removed, or under the field name
\* itself when that would leave nothing.
C5_OneTrailingS ==
    (IsFieldCall(last) /\ pydantic /\ last.tp = TList(TStr)
        /\ ~HasDate(last.field_name) /\ ~HasTime(last.field_name)) =>
        LET e == last.out.val.v
            basis == OneSRemoved(last.field_name)
        IN /\ last.out.err = "none"
           /\ IsTitled(e[1].v, basis, last.model_name)
           /\ e[2].v = e[1].v \o <<" ", "2">>

\* C6: when the two synthesized elements of a sequence field are both
\* strings and equal, the second becomes the first followed by " 2" and the
\* two differ; otherwise both elements are left as synthesized.
C6_Distinct ==
    (IsFieldCall(last) /\ IsSequenceType(last.tp) /\ last.out.err = "none") =>
        LET c == [day |-> last.day, mid |-> last.mid, duck |-> last.duck]
            inner == IF last.tp.a # <<>> THEN last.tp.a[1] ELSE TStr
            basis == Singular(last.field_name)
            r1 == ExampleForType(inner, basis, last.model_name, c, 0, 2)
            r2 == ExampleForType(inner, basis, last.model_name, c, r1.n, 2)
            e == last.out.val.v
        IN IF r1.val.t = "str" /\ r2.val.t = "str" /\ r1.val.v = r2.val.v
           THEN /\ e = <<r1.val, PyStr(r1.val.v \o <<" ", "2">>)>>
                /\ e[1].v # e[2].v
           ELSE IF last.tp.k = "set" /\ r1.val.t = r2.val.t
                    /\ r1.val.v = r2.val.v
           THEN e = <<r1.val>>
           ELSE e = <<r1.val, r2.val>>

\* two equal strings were synthesized and the second got the suffix
C6_Witness ==
    /\ IsFieldCall(last)
    /\ last.tp = TList(TStr)
    /\ last.field_name = F_tags
    /\ last.out.err = "none"
    /\ last.out.val.v[2].v = last.out.val.v[1].v \o <<" ", "2">>

\* midnight passed between the two syntheses: two different dates, unaltered
C6_WitnessDifferent ==
    /\ IsFieldCall(last)
    /\ last.tp = TList(TStr)
    /\ last.field_name = F_dates
    /\ last.mid = 1
    /\ last.out.err = "none"
    /\ IsIsoDate(last.out.val.v[2].v)
    /\ last.out.val.v[2].v # last.out.val.v[1].v

RECURSIVE Mirrors(_, _)
\* value has the shape of the type expression tp
Mirrors(tp, value) ==
    IF IsSequenceType(tp)
    THEN /\ value.t \in {"list", "tuple", "set"}
         /\ Len(value.v) = 2
         /\ \A i \in 1..2 :
              Mirrors(IF tp.a # <<>> THEN tp.a[1] ELSE TStr, value.v[i])
    ELSE IF tp.k = "dict"
    THEN /\ value.t = "dict"
         /\ Len(value.v) = 1
         /\ Mirrors(IF tp.a # <<>> THEN tp.a[1] ELSE TStr, value.v[1][1])
         /\ Mirrors(IF tp.a # <<>> THEN tp.a[2] ELSE TStr, value.v[1][2])
    ELSE IF tp.k = "model"
    THEN /\ value.t = "dict"
         /\ Len(value.v) = Len(ModelFields(tp.m))
         /\ \A i \in 1..Len(value.v) :
              /\ value.v[i][1] = PyStr(ModelFields(tp.m)[i].name)
              /\ Mirrors(ModelFields(tp.m)[i].annotation, value.v[i][2])
    ELSE value.t \in {"str", "int", "float", "bool"}

\* C7: the synthesized value mirrors the type expression: two elements for
\* every sequence (list, tuple or set, of any element type), one entry for
\* every mapping, the nested schema's fields for every nested schema.  (The
\* schema that refers to itself is left out here.)
C7_ShapeMirrors ==
    (IsFieldCall(last) /\ pydantic /\ last.tp # TModel(M_Node)) =>
        /\ last.out.err = "none"
        /\ Mirrors(last.tp, last.out.val)

RECURSIVE DocMatches(_, _)
\* every object of the document that stands for a schema has that schema's
\* fields as its member names, in declaration order
DocMatches(tp, doc) ==
    IF tp.k = "model"
    THEN /\ doc.j = "object"
         /\ Len(doc.v) = Len(ModelFields(tp.m))
         /\ \A i \in 1..Len(doc.v) :
              /\ doc.v[i][1] = ModelFields(tp.m)[i].name
              /\ DocMatches(ModelFields(tp.m)[i].annotation, doc.v[i][2])
    ELSE IF IsSequenceType(tp) /\ tp.a # <<>>
    THEN /\ doc.j = "array"
         /\ \A i \in 1..Len(doc.v) : DocMatches(tp.a[1], doc.v[i])
    ELSE IF tp.k = "dict" /\ tp.a # <<>>
    THEN /\ doc.j = "object"
         /\ \A i \in 1..Len(doc.v) : DocMatches(tp.a[2], doc.v[i][2])
    ELSE TRUE

\* C10: the JSON object model_to_json returns has exactly one member per
\* declared field, in declaration order, and so has every nested-schema
\* object inside it.
C10_FieldOrder ==
    (IsModelCall(last) /\ last.out.err = "none") =>
        DocMatches(last.tp, last.out.val)

\* a schema with four fields, one a list of nested schemas, was serialized
C10_Witness ==
    /\ IsModelCall(last)
    /\ last.model_name = M_Order
    /\ last.out.err = "none"
    /\ Len(last.out.val.v) = 4
    /\ last.out.val.v[2][2].j = "array"
    /\ last.out.val.v[2][2].v[1].j = "object"
    /\ Len(last.out.val.v[2][2].v[1].v) = 2

-----------------------------------------------------------------------------
(* load_env, get_client, get_model *)

\* the values the environment variables take here
EnvValues(name) ==
    IF name = "OPENAI_API_KEY" THEN {"sk-1", "sk-2"}
    ELSE IF name = "OPENAI_BASE_URL" THEN {"http://proxy/v1"}
    ELSE {"gpt-4o-mini"}

Environments ==
    {e \in [EnvNames -> {NotSet, "sk-1", "sk-2", "http://proxy/v1", "gpt-4o-mini"}] :
        \A n \in EnvNames : e[n] \in EnvValues(n) \cup {NotSet}}

\* no .env file, or one that sets the key and the model
DotenvFiles ==
    {[n \in EnvNames |-> NotSet],
     [n \in EnvNames |->
        IF n = "OPENAI_API_KEY" THEN "sk-1"
        ELSE IF n = "OPENAI_MODEL" THEN "gpt-4o-mini" ELSE NotSet]}

\* os.getenv(name, default)
Getenv(name, default) ==
    IF environ[name] = NotSet THEN default ELSE environ[name]

\* load_dotenv(): variables of the file that the environment does not set
LoadDotenv ==
    [n \in EnvNames |-> IF environ[n] = NotSet THEN dotenv[n] ELSE environ[n]]

\* Variant: nothing is ever found in the cache.
CacheLookupMiss(stored) == FALSE

\* @lru_cache(maxsize=1) on a function without arguments: a stored result
\* is returned without running the function
CacheLookup(stored) == stored

Bump(n) == IF n < MaxCount THEN n + 1 ELSE n

\* OpenAI(api_key=api_key, base_url=base_url)
NewClient ==
    [id |-> clientsBuilt + 1,
     api_key |-> Getenv("OPENAI_API_KEY", "???"),
     base_url |-> Getenv("OPENAI_BASE_URL", "http://localhost:1234/v1")]

Reply(op, hit, default, text, client) ==
    [op |-> op, hit |-> hit, environ |-> environ, default |-> default,
     text |-> text, client |-> client]

\* load_env()
CallLoadEnv ==
    /\ IF CacheLookup(loadEnvCache)
       THEN /\ reply' = Reply("load_env", TRUE, NotSet, NotSet, NoClient)
            /\ UNCHANGED <<environ, loadEnvCache, dotenvLoads>>
       ELSE /\ environ' = LoadDotenv
            /\ dotenvLoads' = Bump(dotenvLoads)
            /\ loadEnvCache' = TRUE
            /\ reply' = Reply("load_env", FALSE, NotSet, NotSet, NoClient)
    /\ UNCHANGED <<dotenv, clientCache, clientsBuilt>>
    /\ UNCHANGED synthVars

\* get_client()
CallGetClient ==
    /\ IF CacheLookup(clientCache # NoClient)
       THEN /\ reply' = Reply("get_client", TRUE, NotSet, NotSet, clientCache)
            /\ UNCHANGED <<clientCache, clientsBuilt>>
       ELSE /\ clientCache' = NewClient
            /\ clientsBuilt' = Bump(clientsBuilt)
            /\ reply' = Reply("get_client", FALSE, NotSet, NotSet, NewClient)
    /\ UNCHANGED <<environ, dotenv, loadEnvCache, dotenvLoads>>
    /\ UNCHANGED synthVars

\* get_model(default)
CallGetModel ==
    \E default \in {"gpt-4o", "local-model"} :
        /\ reply' = Reply("get_model", FALSE, default,
                          Getenv("OPENAI_MODEL", default), NoClient)
        /\ UNCHANGED <<environ, dotenv, loadEnvCache, dotenvLoads,
                       clientCache, clientsBuilt>>
        /\ UNCHANGED synthVars

\* other code of the process sets or deletes an environment variable
SetEnv ==
    \E name \in EnvNames, value \in {NotSet, "sk-1", "sk-2", "http://proxy/v1", "gpt-4o-mini"} :
        /\ value \in EnvValues(name) \cup {NotSet}
        /\ value # environ[name]
        /\ environ' = [environ EXCEPT ![name] = value]
        /\ UNCHANGED <<dotenv, loadEnvCache, dotenvLoads, clientCache,
                       clientsBuilt, reply>>
        /\ UNCHANGED synthVars

InitConfig ==
    /\ environ \in Environments
    /\ dotenv \in DotenvFiles
    /\ InitConfigCaches
    /\ pydantic = TRUE
    /\ today \in FieldDays
    /\ nights = 0
    /\ globalRandom = 0
    /\ twist = 0
    /\ last = NoCall
    /\ kept = NoCall

NextConfig == CallLoadEnv \/ CallGetClient \/ CallGetModel \/ SetEnv

SpecConfig == InitConfig /\ [][NextConfig]_vars

\* C11: over any sequence of calls load_dotenv runs at most once, on the
\* first load_env call, and OpenAI(...) is constructed at most once, on the
\* first get_client call, from the OPENAI_API_KEY and OPENAI_BASE_URL of
\* that moment or the defaults "???" and "http://localhost:1234/v1"; every
\* get_client call returns that one client whatever the environment has
\* become; get_model returns the OPENAI_MODEL of the moment of the call, or
\* its argument.
C11_Memoized ==
    /\ [](dotenvLoads <= 1 /\ clientsBuilt <= 1)
    /\ [](loadEnvCache <=> dotenvLoads = 1)
    /\ [](clientCache # NoClient <=> clientsBuilt = 1)
    /\ [][clientCache # NoClient => clientCache' = clientCache]_vars
    /\ [][(clientCache = NoClient /\ clientCache' # NoClient) =>
            /\ clientCache'.api_key =
                 (IF environ["OPENAI_API_KEY"] = NotSet THEN "???"
                  ELSE environ["OPENAI_API_KEY"])
            /\ clientCache'.base_url =
                 (IF environ["OPENAI_BASE_URL"] = NotSet
                  THEN "http://localhost:1234/v1"
                  ELSE environ["OPENAI_BASE_URL"])]_vars
    /\ [](reply.op = "get_client" =>
            clientCache # NoClient /\ reply.client = clientCache)
    /\ [](reply.op = "get_model" =>
            reply.text = (IF reply.environ["OPENAI_MODEL"] = NotSet
                          THEN reply.default
                          ELSE reply.environ["OPENAI_MODEL"]))

\* get_client answered from its cache with the client built from the default
\* key, after OPENAI_API_KEY had been set and .env had been loaded
C11_Witness ==
    /\ reply.op = "get_client"
    /\ reply.hit
    /\ reply.client.api_key = "???"
    /\ reply.environ["OPENAI_API_KEY"] = "sk-2"
    /\ loadEnvCache
    /\ dotenvLoads = 1
    /\ clientsBuilt = 1

-----------------------------------------------------------------------------
(* Claims about recursion and about formats inside sequences *)

\* C12: model_to_json terminates for every schema, the recursion between
\* model_to_json and _example_for_type staying within the nesting depth of
\* the schema's type expressions, also for a schema that refers to itself
\* through a sequence: the recursion is never cut off by RecursionError.
C12_BoundedRecursion ==
    (IsModelCall(last) /\ pydantic) => last.out.err # "RecursionError"

\* C13: in a sequence of strings whose singular field name contains "time"
\* both elements match HH:MM, and in one whose singular field name contains
\* "date" both elements are ISO-8601 calendar dates.
C13_FormatsInSequences ==
    (IsFieldCall(last) /\ pydantic /\ last.tp = TList(TStr)
        /\ last.out.err = "none") =>
        LET basis == Singular(last.field_name)
            e == last.out.val.v
        IN /\ HasDate(basis) => \A i \in 1..Len(e) : IsIsoDate(e[i].v)
           /\ (HasTime(basis) /\ ~HasDate(basis)) =>
                \A i \in 1..Len(e) : IsHHMM(e[i].v)

====
